---- MODULE Spec2Model ----
(***************************************************************************)
(* uncloggr: the streaming log index (scan loop, filter stack, ingestion)  *)
(* and the navigation state (cursor, selection, search) of the viewer,     *)
(* modelled from src/unnamed/part_001 (format.mjs followed by index.mjs).  *)
(*                                                                         *)
(* JavaScript values are modelled as follows.                              *)
(*  - A string is a sequence of one-character strings.                     *)
(*  - An object is a record; `'k' in o` is "k" \in DOMAIN o.               *)
(*  - A value that may be `undefined` is a set: {} is undefined, {v} is v. *)
(*  - Array indices are 0-based as in the source; Msg(i) reads messages[i].*)
(***************************************************************************)
EXTENDS Integers, Sequences, FiniteSets, TLC

\* ------------------------------------------------------------------ bounds
\* Total number of lines the sources deliver in one run.
MaxLines == 3
\* Number of filters the operator pushes on top of slot 0.
MaxPushed == 1
\* The same where the filter stack itself is explored, over StackLines lines.
MaxStack == 2
StackLines == 1
\* Number of source specifications on the command line, and of the sources
\* one specification resolves to.
MaxSpecs == 2
MaxFound == 2
\* Number of lines delivered, and of entries selected, where the selection
\* is explored.
SelectLines == 2
MaxSelected == 2

\* ------------------------------------------------------- program constants
TimePad == 13
IdxPad == 4
LinePad == 9
InvalidLevel == 100
TraceLevel == 10
DebugLevel == 20
InfoLevel == 30
WarningLevel == 40
ErrorLevel == 50
FatalLevel == 60

\* The input streams (the `inputs` array), by index.
Sources == {0, 1}

\* -------------------------------------------------------------- strings
DigitChar == <<"0", "1", "2", "3", "4", "5", "6", "7", "8", "9">>

\* UTF-16 code unit order of the characters a sort key is made of
\* ('-' 0x2D < '0'..'9' 0x30..0x39 < ':' 0x3A): the order of the < operator.
CodeUnitOrder == <<"-">> \o DigitChar \o <<":">>

\* Collation order of the same characters (punctuation before digits):
\* the order of String.prototype.localeCompare.
CollationOrder == <<"-", ":">> \o DigitChar

RankIn(order) == [c \in {order[i] : i \in 1..Len(order)} |->
                    CHOOSE i \in 1..Len(order) : order[i] = c]

CodeUnitRank == RankIn(CodeUnitOrder)
CollationRank == RankIn(CollationOrder)

\* The first place where a and b differ, or one past the shorter of them.
FirstDifference(a, b) ==
  LET n == IF Len(a) < Len(b) THEN Len(a) ELSE Len(b)
      D == {i \in 1..n : a[i] /= b[i]}
  IN IF D = {} THEN n + 1 ELSE CHOOSE i \in D : \A j \in D : i <= j

\* Lexicographic a < b under the character order `rank`.
LexLess(rank, a, b) ==
  LET i == FirstDifference(a, b)
  IN IF i > Len(a) THEN i <= Len(b)
     ELSE IF i > Len(b) THEN FALSE
     ELSE rank[a[i]] < rank[b[i]]

\* a < b on strings.
StrLess(a, b) == LexLess(CodeUnitRank, a, b)

\* a.localeCompare(b) < 0.
LocaleLess(a, b) == LexLess(CollationRank, a, b)

\* String(n) for a natural number n.
RECURSIVE NatToString(_)
NatToString(n) ==
  IF n < 10 THEN <<DigitChar[n + 1]>>
  ELSE NatToString(n \div 10) \o <<DigitChar[(n % 10) + 1]>>

\* s.padStart(n, '0')
RECURSIVE PadStart(_, _)
PadStart(s, n) == IF Len(s) >= n THEN s ELSE PadStart(<<"0">> \o s, n)

\* hay.includes(needle)
Includes(hay, needle) ==
  \E i \in 0..(Len(hay) - Len(needle)) :
    SubSeq(hay, i + 1, i + Len(needle)) = needle

\* ----------------------------------------------------------- input lines
\* A time stamp is carried as the decimal string of its epoch milliseconds;
\* <<>> stands for a value `new Date` cannot parse.
T1 == <<"1", "7", "0", "0", "0", "0", "0", "0", "0", "0", "0", "0", "1">>
T2 == <<"1", "7", "0", "0", "0", "0", "0", "0", "0", "0", "0", "0", "2">>

\* A raw line: its text, whether JSON.parse accepts it, and the object then.
LineA == [text |-> <<"{", "A">>, valid |-> TRUE,
          obj |-> [time |-> T2, level |-> InfoLevel, msg |-> <<"a">>]]
LineB == [text |-> <<"{", "B">>, valid |-> TRUE,
          obj |-> [time |-> T1, level |-> ErrorLevel, msg |-> <<"b", "a">>]]
LineC == [text |-> <<"{", "C">>, valid |-> TRUE,
          obj |-> [level |-> DebugLevel]]
LineD == [text |-> <<"{", "D">>, valid |-> TRUE,
          obj |-> [time |-> T1, level |-> DebugLevel, msg |-> <<"b">>]]
\* Times outside 0 .. 9999999999999: before 1970 ({"time":-1}, {"time":-2})
\* and after the year 2286 ({"time":10000000000000}).
TBefore1 == <<"-", "1">>
TBefore2 == <<"-", "2">>
TFar == <<"1", "0", "0", "0", "0", "0", "0", "0", "0", "0", "0", "0", "0", "0">>
LineBefore1 == [text |-> <<"{", "E">>, valid |-> TRUE,
                obj |-> [time |-> TBefore1, level |-> InfoLevel, msg |-> <<"e">>]]
LineBefore2 == [text |-> <<"{", "F">>, valid |-> TRUE,
                obj |-> [time |-> TBefore2, level |-> InfoLevel, msg |-> <<"f">>]]
LineFar == [text |-> <<"{", "G">>, valid |-> TRUE,
            obj |-> [time |-> TFar, level |-> InfoLevel, msg |-> <<"g">>]]
\* Lines that are no JSON object: an empty line, plain text, a cut-off object.
LineEmpty == [text |-> <<>>, valid |-> FALSE]
LineText == [text |-> <<"n", "o">>, valid |-> FALSE]
LineBroken == [text |-> <<"{", "n">>, valid |-> FALSE]


\* --------------------------------------------------------------- state
VARIABLES
  messages,   \* the store: `messages`
  matching,   \* the matching index: indices into messages
  filters,    \* the filter stack; slot 0 is filters[1]
  scan,       \* next index to scan
  resume,     \* TRUE iff `resume` holds the resolver of the parked loop
  immediate,  \* TRUE iff setImmediate(resume) is scheduled and has not run
  loopPc,     \* where loop() is suspended
  aborted,    \* ac.signal.aborted
  sort,       \* opts.sort
  status, completed,
  srcLine, srcTime, srcEnded, \* per input: `line`, `time`, pipeline settled
  srcError,   \* per input: "none", "caught" (the catch callback has run and
              \* the statements after the await have not), "failed"
  settled,    \* the Promise.all(...).then callback has run
  pub,        \* the snapshot last given to setState
  item,       \* the cursor: {} is undefined (follow the tail), {m} a record
  selected,   \* the selection: a list of store indices
  search,     \* the remembered query: {} is null
  prompt,     \* the open prompt
  boot        \* the process: source resolution, the view, the exit status

engineVars == <<messages, matching, filters, scan, resume, immediate, loopPc,
                aborted, sort, status, completed, srcLine, srcTime, srcEnded,
                srcError, settled, pub, boot>>
navVars == <<item, selected, search, prompt>>
vars == <<engineVars, navVars>>

\* messages[i], 0-based.
Msg(i) == messages[i + 1]
Length == Len(messages)


\* ------------------------------------------------------------ line decoder
\* Mutant: the fallback record carries a level below every threshold.
parseLine_LevelZero(row) ==
  IF row.text = <<>> \/ Head(row.text) /= "{" \/ ~row.valid
    THEN [msg |-> row.text, level |-> 0]
  ELSE row.obj

parseLine(row) ==
  IF row.text = <<>> \/ Head(row.text) /= "{"
    THEN [msg |-> row.text, level |-> InvalidLevel]
  ELSE IF ~row.valid
    THEN [msg |-> row.text, level |-> InvalidLevel]
  ELSE row.obj

\* new Date(t).getTime() || 0, as a decimal string.
GetTime(t) == IF t = <<>> THEN <<"0">> ELSE t

\* The `_sort` key of line `line` of input `idx` at time `time`.
SortKey(time, idx, line) ==
  PadStart(time, TimePad) \o <<":">> \o PadStart(NatToString(idx), IdxPad)
    \o <<":">> \o PadStart(NatToString(line), LinePad)

\* ---------------------------------------------------------------- filters
filterNull == [kind |-> "null"]
LevelFilter(min) == [kind |-> "level", min |-> min]
filterTrace == LevelFilter(TraceLevel)
filterDebug == LevelFilter(DebugLevel)
filterInfo == LevelFilter(InfoLevel)
filterWarning == LevelFilter(WarningLevel)
filterError == LevelFilter(ErrorLevel)
filterFatal == LevelFilter(FatalLevel)
TextFilter(query) == [kind |-> "text", query |-> query]
ExprFilter(query) == [kind |-> "expr", query |-> query]
IncludeFilter(field, value) == [kind |-> "eq", field |-> field, value |-> value]
ExcludeFilter(field, value) == [kind |-> "ne", field |-> field, value |-> value]

\* fp.get(field, x) for x undefined ({}) or an object ({m}).
Get(field, x) ==
  IF x = {} THEN {}
  ELSE LET m == CHOOSE r \in x : TRUE
       IN IF field \in DOMAIN m THEN {m[field]} ELSE {}

\* The part of JSON.stringify(msg) a query can hit: the message text (queries
\* are drawn from letters that occur in no key, number or label).
Stringify(m) == IF "msg" \in DOMAIN m THEN m.msg ELSE <<>>

\* The expressions the operator types at the Expression prompt.
ExprMsgHasA == "this.msg.includes('a')"
ExprLevel == "this.level >= 50"
Exprs == {ExprMsgHasA, ExprLevel}

\* eval(query) with `this` bound to m: "true", "false" (truthiness) or "throw".
Eval(query, m) ==
  IF query = ExprMsgHasA
    THEN IF "msg" \notin DOMAIN m THEN "throw"
         ELSE IF Includes(m.msg, <<"a">>) THEN "true" ELSE "false"
  ELSE IF "level" \in DOMAIN m /\ m.level >= ErrorLevel THEN "true" ELSE "false"

Bool(b) == IF b THEN "true" ELSE "false"

\* fn.call(message, message)
Test(fn, m) ==
  CASE fn.kind = "null" -> "true"
    [] fn.kind = "level" -> Bool("level" \in DOMAIN m /\ m.level >= fn.min)
    [] fn.kind = "text" -> Bool(Includes(Stringify(m), fn.query))
    [] fn.kind = "expr" -> Eval(fn.query, m)
    [] fn.kind = "eq" -> Bool(Get(fn.field, {m}) = fn.value)
    [] fn.kind = "ne" -> Bool(Get(fn.field, {m}) /= fn.value)

\* Mutant: only the level slot is tested.
Every_OnlySlotZero(fs, i, m) == Test(fs[1], m)

\* filters.every(fn => fn.call(m, m)) from slot i on: stops at the first
\* filter that fails or throws.
RECURSIVE Every(_, _, _)
Every(fs, i, m) ==
  IF i > Len(fs) THEN "true"
  ELSE LET r == Test(fs[i], m)
       IN IF r = "true" THEN Every(fs, i + 1, m) ELSE r

\* ------------------------------------------------------------- scan loop
\* Mutant: the insertion point is always the end of the index.
SortedIndex_End(arr, key, low, high) == high

\* fp.sortedIndexBy(idx => messages[idx]._sort, value, arr): binary search
\* for the lowest insertion point, between low and high.
RECURSIVE SortedIndex(_, _, _, _)
SortedIndex(arr, key, low, high) ==
  IF low < high
    THEN LET mid == (low + high) \div 2
         IN IF StrLess(Msg(arr[mid + 1])._sort, key)
              THEN SortedIndex(arr, key, mid + 1, high)
              ELSE SortedIndex(arr, key, low, mid)
  ELSE high

\* arr.splice(idx, 0, x)
Splice(arr, idx, x) == SubSeq(arr, 1, idx) \o <<x>> \o SubSeq(arr, idx + 1, Len(arr))

\* Mutant: a match is put in front of the index.
AddMatch_Front(m, s) == <<s>> \o m

\* The index gains store index s.
AddMatch(m, s) ==
  IF sort THEN Splice(m, SortedIndex(m, Msg(s)._sort, 0, Len(m)), s)
  ELSE Append(m, s)

\* Mutant: the time budget is tested before ++scan, so the record at which a
\* slice ends is scanned again by the next one.
RECURSIVE ScanRun_BreakBeforeIncrement(_, _, _)
ScanRun_BreakBeforeIncrement(s, m, k) ==
  IF k = 0 \/ s >= Length THEN [scan |-> s, matching |-> m, threw |-> FALSE]
  ELSE LET r == Every(filters, 1, Msg(s))
           m2 == IF r = "true" THEN AddMatch(m, s) ELSE m
       IN IF r = "throw" THEN [scan |-> s, matching |-> m, threw |-> TRUE]
          ELSE IF k = 1 /\ s + 1 < Length
            THEN [scan |-> s, matching |-> m2, threw |-> FALSE]
          ELSE ScanRun_BreakBeforeIncrement(s + 1, m2, k - 1)

\* Mutant: a slice that ends on its time budget steps over the next record.
RECURSIVE ScanRun_SkipsAtBreak(_, _, _)
ScanRun_SkipsAtBreak(s, m, k) ==
  IF s >= Length THEN [scan |-> s, matching |-> m, threw |-> FALSE]
  ELSE IF k = 0 THEN [scan |-> s + 1, matching |-> m, threw |-> FALSE]
  ELSE LET r == Every(filters, 1, Msg(s))
       IN IF r = "throw" THEN [scan |-> s, matching |-> m, threw |-> TRUE]
          ELSE ScanRun_SkipsAtBreak(s + 1, IF r = "true" THEN AddMatch(m, s) ELSE m, k - 1)

\* The inner while loop: scans from s until the store is exhausted or the
\* time budget is spent after k records; a throwing filter ends it.
RECURSIVE ScanRun(_, _, _)
ScanRun(s, m, k) ==
  IF k = 0 \/ s >= Length THEN [scan |-> s, matching |-> m, threw |-> FALSE]
  ELSE LET r == Every(filters, 1, Msg(s))
       IN IF r = "throw" THEN [scan |-> s, matching |-> m, threw |-> TRUE]
          ELSE ScanRun(s + 1, IF r = "true" THEN AddMatch(m, s) ELSE m, k - 1)

\* The record handed to setState.
Snapshot(sc) == [sorted |-> sort, scan |-> sc, status |-> status, completed |-> completed]

\* Timers, setImmediate callbacks and key presses run from the event loop,
\* so never between the catch callback of a rejected pipeline and the
\* statements after its await, which follow each other as promise jobs.
Macrotask == \A s \in Sources : srcError[s] /= "caught"

\* One iteration of `while (!ac.signal.aborted)` up to the await of the
\* 20 ms timer: the exit test, one time slice, the published snapshot.
Iterate ==
  IF aborted
    THEN loopPc' = "done" /\ UNCHANGED <<scan, matching, pub>>
  ELSE \E k \in (IF scan < Length THEN 1..(Length - scan) ELSE {0}) :
         LET r == ScanRun(scan, matching, k)
         IN /\ scan' = r.scan
            /\ matching' = r.matching
            /\ IF r.threw
                 THEN loopPc' = "dead" /\ UNCHANGED pub
                 ELSE loopPc' = "pause" /\ pub' = Snapshot(r.scan)

\* The 20 ms timer has fired: continue if records are left, else park.
LoopAfterPause ==
  /\ Macrotask
  /\ loopPc = "pause"
  /\ IF scan < Length
       THEN Iterate /\ UNCHANGED resume
       ELSE loopPc' = "parked" /\ resume' = TRUE /\ UNCHANGED <<scan, matching, pub>>
  /\ UNCHANGED <<messages, filters, immediate, aborted, sort, boot, status, completed,
                 srcLine, srcTime, srcEnded, srcError, settled, navVars>>

\* The parked promise was resolved: the loop goes on.
LoopWoken ==
  /\ loopPc = "woken"
  /\ Iterate
  /\ UNCHANGED <<messages, filters, resume, immediate, aborted, sort, boot, status,
                 completed, srcLine, srcTime, srcEnded, srcError, settled, navVars>>

\* Mutant: a rescan also runs the loop when it is not parked.
Wake_StartsLoop ==
  /\ resume' = FALSE
  /\ loopPc' = (IF loopPc \in {"parked", "pause"} THEN "woken" ELSE loopPc)

\* resume?.(): resolves the parked promise; the continuation's `resume = null`
\* is folded in, the resolver being spent from here on.
Wake ==
  IF resume
    THEN resume' = FALSE /\ loopPc' = (IF loopPc = "parked" THEN "woken" ELSE loopPc)
    ELSE UNCHANGED <<resume, loopPc>>

\* Mutant: the index is kept across the reset of the scan position.
rescan_KeepsIndex == scan' = 0 /\ UNCHANGED matching /\ Wake

\* rescan()
rescan == scan' = 0 /\ matching' = <<>> /\ Wake

\* The callback of setImmediate(resume) runs.
ImmediateFire ==
  /\ Macrotask
  /\ immediate
  /\ immediate' = FALSE
  /\ loopPc' = (IF loopPc = "parked" THEN "woken" ELSE loopPc)
  /\ UNCHANGED <<messages, matching, filters, scan, resume, aborted, sort, boot, status,
                 completed, srcLine, srcTime, srcEnded, srcError, settled, pub,
                 navVars>>

\* -------------------------------------------------------------- ingestion
\* The number of lines read so far, over both inputs.
LinesRead == srcLine[0] + srcLine[1]

Reading(c) == "reading files (" \o ToString(c) \o "/"
                \o ToString(Cardinality(Sources)) \o ")"

\* Mutant: a line without a time is keyed with time 0.
Ingested_NoTimeIsZero(idx, row) ==
  LET msg == parseLine(row)
      line == srcLine[idx] + 1
      time == IF "time" \in DOMAIN msg THEN GetTime(msg.time) ELSE <<"0">>
  IN [_sort |-> SortKey(time, idx, line), _from |-> idx, _line |-> line] @@ msg

\* The record pushed for `row`, the next line of input idx.
Ingested(idx, row) ==
  LET msg == parseLine(row)
      line == srcLine[idx] + 1
      time == IF "time" \in DOMAIN msg THEN GetTime(msg.time) ELSE srcTime[idx]
  IN [_sort |-> SortKey(time, idx, line), _from |-> idx, _line |-> line] @@ msg

\* Mutant: the record is put in front of the store.
AppendLine_Unshift(idx, row) ==
  /\ ~aborted /\ ~srcEnded[idx] /\ LinesRead < MaxLines
  /\ LET m == Ingested(idx, row)
     IN /\ messages' = <<m>> \o messages
        /\ srcLine' = [srcLine EXCEPT ![idx] = m._line]
        /\ srcTime' = [srcTime EXCEPT ![idx] =
                         IF "time" \in DOMAIN m THEN GetTime(m.time) ELSE @]
  /\ IF resume
       THEN immediate' = TRUE /\ resume' = FALSE
       ELSE UNCHANGED <<immediate, resume>>
  /\ UNCHANGED <<matching, filters, scan, loopPc, aborted, sort, boot, status, completed,
                 srcEnded, srcError, settled, pub, navVars>>

\* Mutant: an append steps the scan position back.
AppendLine_Rewinds(idx, row) ==
  /\ ~aborted /\ ~srcEnded[idx] /\ LinesRead < MaxLines
  /\ LET m == Ingested(idx, row)
     IN /\ messages' = Append(messages, m)
        /\ srcLine' = [srcLine EXCEPT ![idx] = m._line]
        /\ srcTime' = [srcTime EXCEPT ![idx] =
                         IF "time" \in DOMAIN m THEN GetTime(m.time) ELSE @]
  /\ scan' = IF scan > 0 THEN scan - 1 ELSE 0
  /\ IF resume
       THEN immediate' = TRUE /\ resume' = FALSE
       ELSE UNCHANGED <<immediate, resume>>
  /\ UNCHANGED <<matching, filters, loopPc, aborted, sort, boot, status, completed,
                 srcEnded, srcError, settled, pub, navVars>>

\* Mutant: an empty line is counted and not stored.
AppendLine_SkipsEmpty(idx, row) ==
  /\ ~aborted /\ ~srcEnded[idx] /\ LinesRead < MaxLines
  /\ LET m == Ingested(idx, row)
     IN /\ messages' = IF row.text = <<>> THEN messages ELSE Append(messages, m)
        /\ srcLine' = [srcLine EXCEPT ![idx] = m._line]
        /\ srcTime' = [srcTime EXCEPT ![idx] =
                         IF "time" \in DOMAIN m THEN GetTime(m.time) ELSE @]
  /\ IF resume
       THEN immediate' = TRUE /\ resume' = FALSE
       ELSE UNCHANGED <<immediate, resume>>
  /\ UNCHANGED <<matching, filters, scan, loopPc, aborted, sort, boot, status, completed,
                 srcEnded, srcError, settled, pub, navVars>>

\* One turn of `for await (const msg of msgs)` of input idx.
AppendLine(idx, row) ==
  /\ ~aborted /\ ~srcEnded[idx] /\ LinesRead < MaxLines
  /\ LET m == Ingested(idx, row)
     IN /\ messages' = Append(messages, m)
        /\ srcLine' = [srcLine EXCEPT ![idx] = m._line]
        /\ srcTime' = [srcTime EXCEPT ![idx] =
                         IF "time" \in DOMAIN m THEN GetTime(m.time) ELSE @]
  /\ IF resume
       THEN immediate' = TRUE /\ resume' = FALSE
       ELSE UNCHANGED <<immediate, resume>>
  /\ UNCHANGED <<matching, filters, scan, loopPc, aborted, sort, boot, status, completed,
                 srcEnded, srcError, settled, pub, navVars>>

\* err.message of the error a pipeline rejects with.
ErrMessage == "read error"

\* Mutant: the catch callback cancels the whole run.
SourceFail_Aborts(idx) ==
  /\ ~srcEnded[idx]
  /\ srcEnded' = [srcEnded EXCEPT ![idx] = TRUE]
  /\ srcError' = [srcError EXCEPT ![idx] = "caught"]
  /\ status' = ErrMessage
  /\ aborted' = TRUE
  /\ UNCHANGED <<messages, matching, filters, scan, resume, immediate, loopPc,
                 sort, boot, completed, srcLine, srcTime, settled, pub, navVars>>

\* The pipeline of input idx rejects (a stream error, or the abort signal):
\* the catch callback runs.
SourceFail(idx) ==
  /\ ~srcEnded[idx]
  /\ srcEnded' = [srcEnded EXCEPT ![idx] = TRUE]
  /\ srcError' = [srcError EXCEPT ![idx] = "caught"]
  /\ status' = ErrMessage
  /\ UNCHANGED <<messages, matching, filters, scan, resume, immediate, loopPc,
                 aborted, sort, boot, completed, srcLine, srcTime, settled, pub, navVars>>

\* The statements after `await pipeline(...).catch(...)` of input idx: after
\* the end of its stream, or after its catch callback.
SourceEnd(idx) ==
  /\ \/ ~srcEnded[idx] /\ ~aborted
     \/ srcError[idx] = "caught"
  /\ srcEnded' = [srcEnded EXCEPT ![idx] = TRUE]
  /\ srcError' = [srcError EXCEPT ![idx] = IF @ = "caught" THEN "failed" ELSE @]
  /\ completed' = completed + 1
  /\ status' = Reading(completed + 1)
  /\ Wake
  /\ UNCHANGED <<messages, matching, filters, scan, immediate, aborted, sort, boot,
                 srcLine, srcTime, settled, pub, navVars>>

\* Promise.all(...).then(() => ...)
AllSettled ==
  /\ ~settled
  /\ \A s \in Sources : srcEnded[s] /\ srcError[s] /= "caught"
  /\ settled' = TRUE
  /\ status' = "end of file"
  /\ Wake
  /\ UNCHANGED <<messages, matching, filters, scan, immediate, aborted, sort, boot,
                 completed, srcLine, srcTime, srcEnded, srcError, pub, navVars>>

\* The cleanup of the layout effect (the view is unmounted by exit()).
Cleanup ==
  /\ Macrotask
  /\ ~aborted
  /\ aborted' = TRUE
  /\ Wake
  /\ UNCHANGED <<messages, matching, filters, scan, immediate, sort, boot, status,
                 completed, srcLine, srcTime, srcEnded, srcError, settled, pub,
                 navVars>>

\* ---------------------------------------------------------------- startup
NoPrompt == [label |-> "none"]

\* The process while it resolves its source specifications (pc "resolve"),
\* asks which of several sources to read ("ask"), shows the view ("view") or
\* has exited ("exit"): `left` specifications to go, `found` sources on offer,
\* `inputs` streams collected, `code` the exit status ({} while running).
Booting(n) == [pc |-> "resolve", left |-> n, found |-> 0, inputs |-> 0, code |-> {}]
Viewing == [pc |-> "view", left |-> 0, found |-> 0, inputs |-> Cardinality(Sources),
            code |-> {}]
Exited(c) == [boot EXCEPT !.pc = "exit", !.found = 0, !.code = {c}]

\* Everything but the process: untouched while the sources are resolved.
StartVars == <<messages, matching, filters, scan, resume, immediate, loopPc,
               aborted, sort, status, completed, srcLine, srcTime, srcEnded,
               srcError, settled, pub, navVars>>

\* The streams one source is read from: a file or stdin, or the stdout and
\* stderr of a child process.
StreamsPer == {1, 2}

\* The body of `for (const source of sources)` when `from` has n elements
\* and a source is read from k streams.
Advance(streams) ==
  boot' = [boot EXCEPT !.pc = IF boot.left = 1 THEN "view" ELSE "resolve",
                       !.left = @ - 1, !.found = 0, !.inputs = @ + streams]

\* Mutant: a specification that resolves to nothing is passed over.
Resolve_SkipsMissing(n, k) ==
  /\ boot.pc = "resolve"
  /\ IF n = 0 THEN Advance(0)
     ELSE IF n = 1 THEN Advance(k)
     ELSE boot' = [boot EXCEPT !.pc = "ask", !.found = n]
  /\ UNCHANGED StartVars

Resolve(n, k) ==
  /\ boot.pc = "resolve"
  /\ IF n = 0 THEN boot' = Exited(1)
     ELSE IF n = 1 THEN Advance(k)
     ELSE boot' = [boot EXCEPT !.pc = "ask", !.found = n]
  /\ UNCHANGED StartVars

\* The getter of a named source type throws: the module's evaluation
\* rejects and the process exits with status 1.
ResolveThrows == boot.pc = "resolve" /\ boot' = Exited(1) /\ UNCHANGED StartVars

\* The operator confirms a choice of c sources (never none: validate).
Answer(c, k) ==
  boot.pc = "ask" /\ c <= boot.found /\ Advance(c * k) /\ UNCHANGED StartVars

\* The operator aborts the prompt: it rejects, the catch exits.
AskAbort == boot.pc = "ask" /\ boot' = Exited(1) /\ UNCHANGED StartVars

\* The view is shown and reads the inputs the model has.
Mounted == boot.pc = "view" /\ boot.inputs = Cardinality(Sources)

\* waitUntilExit() has resolved: process.exit(0).
ProcessExit ==
  boot.pc = "view" /\ aborted /\ boot' = Exited(0) /\ UNCHANGED StartVars

\* The state of the engine and of the view when the layout effect has run.
Mount ==
  /\ messages = <<>>
  /\ matching = <<>>
  /\ filters = <<filterNull>>
  /\ scan = 0
  /\ resume = FALSE
  /\ immediate = FALSE
  /\ loopPc = "pause"
  /\ aborted = FALSE
  /\ sort \in BOOLEAN
  /\ status = Reading(0)
  /\ completed = 0
  /\ srcLine = [s \in Sources |-> 0]
  /\ srcTime = [s \in Sources |-> <<"0">>]
  /\ srcEnded = [s \in Sources |-> FALSE]
  /\ srcError = [s \in Sources |-> "none"]
  /\ settled = FALSE
  /\ pub = Snapshot(0)
  /\ item = {}
  /\ selected = <<>>
  /\ search = {}
  /\ prompt = NoPrompt

Init == Mount /\ boot = Viewing


\* ------------------------------------------------------------- navigation
\* Page size of the list (numLines), an input of the page keys.
NumLines == 2

Min(S) == CHOOSE x \in S : \A y \in S : x <= y
Max(S) == CHOOSE x \in S : \A y \in S : x >= y

\* arr.findIndex(P) for the set S of the 1-based places of arr that P accepts:
\* the first of them, 0-based, -1 if none.
FindIndex(S) == IF S = {} THEN -1 ELSE Min(S) - 1

\* arr.indexOf(x)
IndexOf(arr, x) == FindIndex({i \in 1..Len(arr) : arr[i] = x})

\* arr.at(i): {} (undefined) outside the array, counting from the end for i < 0.
At(arr, i) ==
  LET j == IF i < 0 THEN Len(arr) + i ELSE i
  IN IF j >= 0 /\ j < Len(arr) THEN {arr[j + 1]} ELSE {}

\* messages[x] for x undefined or an index.
MsgAt(x) ==
  IF x = {} THEN {}
  ELSE LET i == CHOOSE j \in x : TRUE
       IN IF i >= 0 /\ i < Length THEN {Msg(i)} ELSE {}

\* Mutant: the position of a bound cursor is the record's place in the store.
positionOf_ByStoreIndex(it) == IndexOf(messages, it)

\* The position of a bound cursor: the record's own entry, else the first
\* entry after it in the order of the index, else the last entry.
positionOf(it) ==
  LET idx == FindIndex({i \in 1..Len(matching) : Msg(matching[i]) = it})
      near == IF idx /= -1 THEN idx
              ELSE IF pub.sorted
                THEN FindIndex({i \in 1..Len(matching) :
                                  StrLess(it._sort, Msg(matching[i])._sort)})
              ELSE LET messagesIdx == IndexOf(messages, it)
                   IN FindIndex({i \in 1..Len(matching) : matching[i] > messagesIdx})
  IN IF near = -1 THEN Len(matching) - 1 ELSE near

\* Mutant: an undefined item resolves to the first entry.
getPosition_TailIsFirst ==
  IF item = {} THEN Min({0, Len(matching) - 1})
  ELSE positionOf(CHOOSE r \in item : TRUE)

\* Mutant: a record that is not in the index resolves to the last entry.
getPosition_AbsentIsLast ==
  IF item = {} THEN Len(matching) - 1
  ELSE LET idx == FindIndex({i \in 1..Len(matching) :
                               Msg(matching[i]) = CHOOSE r \in item : TRUE})
       IN IF idx = -1 THEN Len(matching) - 1 ELSE idx

getPosition ==
  IF item = {} THEN Len(matching) - 1
  ELSE positionOf(CHOOSE r \in item : TRUE)

\* matching[pos] read as a plain array element.
Elem(pos) == IF pos >= 0 /\ pos < Len(matching) THEN {matching[pos + 1]} ELSE {}

\* A key reaches the list handler: the view is mounted and no prompt is open.
KeyReady == Macrotask /\ ~aborted /\ prompt = NoPrompt

\* A key reaches the prompt `label`.
PromptReady(label) == Macrotask /\ ~aborted /\ prompt.label = label

\* Mutant: the position moved to is not clamped to the index.
move_NoClamp(rel) ==
  LET pos == getPosition + rel
  IN item' = MsgAt(Elem(pos))

move(rel) ==
  LET pos == Max({0, Min({Len(matching) - 1, getPosition + rel})})
  IN item' = MsgAt(Elem(pos))

\* j k, the arrows, the page keys.
KeyMove(rel) ==
  /\ KeyReady
  /\ move(rel)
  /\ UNCHANGED <<engineVars, selected, search, prompt>>

\* The positions of the index.
Positions == 0..(Len(matching) - 1)
\* Mutant: the entry at the position is looked at as well.
After_Inclusive(pos, S) == {i \in S : i >= pos}

\* Of the accepted positions S, those that matching.find reaches with idx > pos.
After(pos, S) == {i \in S : i > pos}
\* Of the accepted positions S, those within matching.slice(0, pos).
Before(pos, S) ==
  LET end == IF pos < 0 THEN Max({Len(matching) + pos, 0}) ELSE Min({pos, Len(matching)})
  IN {i \in S : i < end}

\* Mutant: a miss leaves the item as it is.
ItemForward_MissKeepsItem(hits) == IF hits = {} THEN item ELSE {Msg(matching[Min(hits) + 1])}

\* setItem(idx !== undefined ? messages[idx] : undefined) for matching.find
ItemForward(hits) == IF hits = {} THEN {} ELSE {Msg(matching[Min(hits) + 1])}
\* setItem(idx !== undefined ? messages[idx] : messages[matching[0]]) for findLast
ItemBackward(hits) == IF hits = {} THEN MsgAt(Elem(0)) ELSE {Msg(matching[Max(hits) + 1])}

Contains(query, x) == Includes(Stringify(Msg(x)), query)
\* The positions whose record contains the query.
QueryPositions(query) == {i \in Positions : Contains(query, matching[i + 1])}

searchNext(query, pos) ==
  IF query = {} \/ query = {<<>>}
    THEN UNCHANGED item
  ELSE LET q == CHOOSE x \in query : TRUE
       IN item' = ItemForward(After(pos, QueryPositions(q)))

\* Mutant: an entry that is in the selection stays in it.
Toggled_OnlyAdds(sel, it) ==
  IF IndexOf(sel, it) = -1 THEN Append(sel, it) ELSE sel

\* The updater given to setSelected: the selection without `it` if it holds
\* it, with `it` at its end if not.
Toggled(sel, it) ==
  LET idx == IndexOf(sel, it)
  IN IF idx = -1 THEN Append(sel, it)
     ELSE SubSeq(sel, 1, idx) \o SubSeq(sel, idx + 2, Len(sel))

\* ' '
KeySpace ==
  /\ KeyReady
  /\ selected' = Toggled(selected, Elem(getPosition))
  /\ UNCHANGED <<engineVars, item, search, prompt>>

IsSelected(x) == \E i \in 1..Len(selected) : selected[i] = {x}
\* The positions whose entry is selected.
SelectedPositions == {i \in Positions : IsSelected(matching[i + 1])}

\* 'm'
KeyNextSelected ==
  /\ KeyReady
  /\ item' = ItemForward(After(getPosition, SelectedPositions))
  /\ UNCHANGED <<engineVars, selected, search, prompt>>

\* 'M'
KeyPrevSelected ==
  /\ KeyReady
  /\ item' = ItemBackward(Before(getPosition, SelectedPositions))
  /\ UNCHANGED <<engineVars, selected, search, prompt>>

\* '/': the prompt's onSubmit closes over the position of this key press.
KeySearch ==
  /\ KeyReady
  /\ prompt' = [label |-> "Search", pos |-> getPosition]
  /\ UNCHANGED <<engineVars, item, selected, search>>

Queries == {<<>>, <<"a">>, <<"b">>}

\* Enter at the Search prompt.
SubmitSearch(query) ==
  /\ PromptReady("Search")
  /\ search' = {query}
  /\ searchNext({query}, prompt.pos)
  /\ prompt' = NoPrompt
  /\ UNCHANGED <<engineVars, selected>>

\* 'n'
KeySearchNext ==
  /\ KeyReady
  /\ searchNext(search, getPosition)
  /\ UNCHANGED <<engineVars, selected, search, prompt>>

\* 'N'
KeySearchPrev ==
  /\ KeyReady
  /\ IF search = {} \/ search = {<<>>}
       THEN UNCHANGED item
       ELSE LET q == CHOOSE x \in search : TRUE
            IN item' = ItemBackward(Before(getPosition, QueryPositions(q)))
  /\ UNCHANGED <<engineVars, selected, search, prompt>>

\* 'g'
KeyFirst ==
  /\ KeyReady
  /\ item' = MsgAt(At(matching, 0))
  /\ UNCHANGED <<engineVars, selected, search, prompt>>

\* 'F'
KeyFollow ==
  /\ KeyReady
  /\ item' = {}
  /\ UNCHANGED <<engineVars, selected, search, prompt>>

\* Mutant: the jump to the last entry leaves the cursor following the tail.
KeyLast_Follows ==
  /\ KeyReady
  /\ item' = {}
  /\ UNCHANGED <<engineVars, selected, search, prompt>>

\* 'G'
KeyLast ==
  /\ KeyReady
  /\ item' = MsgAt(At(matching, -1))
  /\ UNCHANGED <<engineVars, selected, search, prompt>>

\* Escape at a prompt.
KeyEscape ==
  /\ Macrotask /\ ~aborted /\ prompt /= NoPrompt
  /\ prompt' = NoPrompt
  /\ UNCHANGED <<engineVars, item, selected, search>>

\* --------------------------------------------------------- filter commands
engineRest == <<messages, immediate, aborted, sort, status, completed, srcLine,
                srcTime, srcEnded, srcError, settled, pub, boot>>

\* Mutant: the level key also drops the pushed filters.
KeyLevel_ClearsStack(fn) ==
  /\ KeyReady
  /\ filters' = <<fn>>
  /\ rescan
  /\ UNCHANGED <<engineRest, navVars>>

\* '1' .. '6'
KeyLevel(fn) ==
  /\ KeyReady
  /\ filters' = [filters EXCEPT ![1] = fn]
  /\ rescan
  /\ UNCHANGED <<engineRest, navVars>>

\* Mutant: a pop removes the filter pushed first.
KeyBackspace_RemovesOldest(meta) ==
  /\ KeyReady
  /\ filters' = IF meta \/ Len(filters) = 1 THEN <<filterNull>>
                ELSE <<filters[1]>> \o SubSeq(filters, 3, Len(filters))
  /\ rescan
  /\ UNCHANGED <<engineRest, navVars>>

\* Mutant: clearing every filter also forgets the selection.
KeyBackspace_DropsSelection(meta) ==
  /\ KeyReady
  /\ filters' = IF meta \/ Len(filters) = 1 THEN <<filterNull>>
                ELSE SubSeq(filters, 1, Len(filters) - 1)
  /\ rescan
  /\ selected' = IF meta THEN <<>> ELSE selected
  /\ UNCHANGED <<engineRest, item, search, prompt>>

\* Mutant: a pop with nothing pushed leaves slot 0 as it is.
KeyBackspace_KeepsLevel(meta) ==
  /\ KeyReady
  /\ filters' = IF meta THEN <<filterNull>>
                ELSE IF Len(filters) = 1 THEN filters
                ELSE SubSeq(filters, 1, Len(filters) - 1)
  /\ rescan
  /\ UNCHANGED <<engineRest, navVars>>

\* Backspace / Delete, with or without Meta.
KeyBackspace(meta) ==
  /\ KeyReady
  /\ filters' = IF meta \/ Len(filters) = 1 THEN <<filterNull>>
                ELSE SubSeq(filters, 1, Len(filters) - 1)
  /\ rescan
  /\ UNCHANGED <<engineRest, navVars>>

\* '&' and '=' open a prompt.
KeyPrompt(label) ==
  /\ KeyReady
  /\ prompt' = [label |-> label]
  /\ UNCHANGED <<engineVars, item, selected, search>>

\* Mutant: the filter is put in front of the stack.
push_Unshift(fn) ==
  Len(filters) <= MaxStack /\ filters' = <<fn>> \o filters /\ rescan

\* filters.push(fn); rescan()
push(fn) == Len(filters) <= MaxStack /\ filters' = Append(filters, fn) /\ rescan

\* Enter at the Filter prompt.
SubmitFilter(query) ==
  /\ PromptReady("Filter")
  /\ push(TextFilter(query))
  /\ prompt' = NoPrompt
  /\ UNCHANGED <<engineRest, item, selected, search>>

\* Enter at the Expression prompt.
SubmitExpression(query) ==
  /\ PromptReady("Expression")
  /\ push(ExprFilter(query))
  /\ prompt' = NoPrompt
  /\ UNCHANGED <<engineRest, item, selected, search>>

\* The fields the operator can have selected with h / l.
Fields == {"level", "msg"}

\* '+'
KeyInclude(field) ==
  /\ KeyReady
  /\ push(IncludeFilter(field, Get(field, MsgAt(At(matching, getPosition)))))
  /\ UNCHANGED <<engineRest, navVars>>

\* '-'
KeyExclude(field) ==
  /\ KeyReady
  /\ push(ExcludeFilter(field, Get(field, MsgAt(At(matching, getPosition)))))
  /\ UNCHANGED <<engineRest, navVars>>

\* Mutant: the store is left in the order it has.
SortMessages_Keeps(ms) == ms

\* messages.sort((a, b) => a._sort.localeCompare(b._sort)): a stable sort.
RECURSIVE SortMessages(_)
SortMessages(ms) ==
  IF ms = <<>> THEN <<>>
  ELSE LET front == SortMessages(SubSeq(ms, 1, Len(ms) - 1))
           x == ms[Len(ms)]
           n == Cardinality({i \in 1..Len(front) : ~LocaleLess(x._sort, front[i]._sort)})
       IN SubSeq(front, 1, n) \o <<x>> \o SubSeq(front, n + 1, Len(front))

\* Mutant: the selection keeps its store indices across the sort.
KeySort_KeepsIndices ==
  /\ KeyReady
  /\ messages' = SortMessages(messages)
  /\ rescan
  /\ UNCHANGED <<filters, immediate, aborted, sort, boot, status, completed, srcLine,
                 srcTime, srcEnded, srcError, settled, pub, navVars>>

\* 's'
KeySort ==
  /\ KeyReady
  /\ LET selectedItems == [i \in 1..Len(selected) |-> MsgAt(selected[i])]
         sortedMessages == SortMessages(messages)
         indexOf(x) == IF x = {} THEN -1
                       ELSE IndexOf(sortedMessages, CHOOSE m \in x : TRUE)
     IN /\ messages' = sortedMessages
        /\ selected' = [i \in 1..Len(selected) |-> {indexOf(selectedItems[i])}]
  /\ rescan
  /\ UNCHANGED <<filters, immediate, aborted, sort, boot, status, completed, srcLine,
                 srcTime, srcEnded, srcError, settled, pub, item, search, prompt>>

\* Mutant: the store is emptied and the scan is not restarted.
KeyClear_KeepsScan ==
  /\ KeyReady
  /\ messages' = <<>>
  /\ UNCHANGED <<matching, scan, resume, loopPc>>
  /\ UNCHANGED <<filters, immediate, aborted, sort, boot, status, completed, srcLine,
                 srcTime, srcEnded, srcError, settled, pub, navVars>>

\* 'c'
KeyClear ==
  /\ KeyReady
  /\ messages' = <<>>
  /\ rescan
  /\ UNCHANGED <<filters, immediate, aborted, sort, boot, status, completed, srcLine,
                 srcTime, srcEnded, srcError, settled, pub, navVars>>

\* --------------------------------------------------------- specifications
\* What the operator and the inputs do is drawn from these sets.
LevelFilters == {filterInfo}
FilterQueries == {<<"a">>}
FilterExprs == {ExprMsgHasA}
SourceLines(idx) == IF idx = 0 THEN {LineA, LineC} ELSE {LineB}

Appends == \E idx \in Sources : \E row \in SourceLines(idx) : AppendLine(idx, row)

Ends ==
  \/ \E idx \in Sources : SourceFail(idx)
  \/ \E idx \in Sources : SourceEnd(idx)
  \/ AllSettled

Loop ==
  \/ LoopAfterPause
  \/ LoopWoken
  \/ ImmediateFire

FilterKeys ==
  \/ \E fn \in LevelFilters : KeyLevel(fn)
  \/ \E meta \in BOOLEAN : KeyBackspace(meta)
  \/ \E label \in {"Filter", "Expression"} : KeyPrompt(label)
  \/ Len(filters) <= MaxPushed /\ \E query \in FilterQueries : SubmitFilter(query)
  \/ Len(filters) <= MaxPushed /\ \E query \in FilterExprs : SubmitExpression(query)
  \/ KeyEscape

\* The scan engine under ingestion from inputs that stay open, and the
\* commands that invalidate the index.
NextScan ==
  \/ Appends
  \/ Loop
  \/ FilterKeys
  \/ KeySort
  \/ KeyClear

SpecScan == Init /\ [][NextScan]_vars

\* Inputs whose every line carries a time and a msg: input 0 delivers the
\* later record, input 1 the earlier one, which the filters drawn above reject.
TimedLines(idx) == IF idx = 0 THEN {LineA} ELSE {LineD}

TimedAppends == \E idx \in Sources : \E row \in TimedLines(idx) : AppendLine(idx, row)

\* The commands that invalidate the index, over the timed inputs.
NextIndex ==
  \/ TimedAppends
  \/ Loop
  \/ FilterKeys
  \/ KeySort
  \/ KeyClear

SpecIndex == Init /\ [][NextIndex]_vars

\* The life cycle: inputs that end, the loop, a rescan, cancellation.
NextLife ==
  \/ TimedAppends
  \/ Ends
  \/ Loop
  \/ \E fn \in LevelFilters : KeyLevel(fn)
  \/ Cleanup

SpecLife == Init /\ [][NextLife]_vars

SearchKeys ==
  \/ KeySearch
  \/ \E query \in Queries : SubmitSearch(query)
  \/ KeySearchNext
  \/ KeySearchPrev
  \/ KeyEscape

MoveKeys ==
  \/ \E rel \in {-1, 1, -NumLines, NumLines} : KeyMove(rel)
  \/ KeyFirst
  \/ KeyFollow
  \/ KeyLast

\* The cursor and the search under ingestion, scanning and a level filter.
NextNav ==
  \/ Appends
  \/ Loop
  \/ \E fn \in LevelFilters : KeyLevel(fn)
  \/ MoveKeys
  \/ SearchKeys

SpecNav == Init /\ [][NextNav]_vars

\* The cursor under ingestion, scanning, the filter commands and a clear.
NextCursor ==
  \/ TimedAppends
  \/ Loop
  \/ FilterKeys
  \/ MoveKeys
  \/ KeyClear

SpecCursor == Init /\ [][NextCursor]_vars

\* The selection in append mode: toggles at the tail, under ingestion,
\* scanning, the filter keys, a sort and a clear.
NextSelect ==
  \/ LinesRead < SelectLines /\ TimedAppends
  \/ Loop
  \/ \E fn \in LevelFilters : KeyLevel(fn)
  \/ \E meta \in BOOLEAN : KeyBackspace(meta)
  \/ Len(filters) <= MaxPushed /\ KeyInclude("msg")
  \/ KeySpace /\ Len(selected') <= MaxSelected
  \/ KeySort
  \/ KeyClear

\* The program started without --sort.
InitAppendMode == Init /\ ~sort

SpecSelect == InitAppendMode /\ [][NextSelect]_vars

\* Inputs of which input 0 delivers lines whose times may go backwards.
UnorderedLines(idx) == IF idx = 0 THEN {LineA, LineD} ELSE {LineD}

\* The sort command under ingestion, scanning, a level filter and a clear.
NextSort ==
  \/ \E idx \in Sources : \E row \in UnorderedLines(idx) : AppendLine(idx, row)
  \/ Loop
  \/ \E fn \in LevelFilters : KeyLevel(fn)
  \/ KeySort
  \/ KeyClear

SpecSort == Init /\ [][NextSort]_vars

\* Inputs that deliver lines that are no JSON object next to one that is.
DecodeLines(idx) == IF idx = 0 THEN {LineA, LineText} ELSE {LineEmpty, LineBroken}

\* The level thresholds of the keys '1' .. '6'.
Thresholds == {filterTrace, filterDebug, filterInfo, filterWarning, filterError,
               filterFatal}

\* Decoding and the level slot: every kind of line under every threshold.
NextDecode ==
  \/ \E idx \in Sources : \E row \in DecodeLines(idx) : AppendLine(idx, row)
  \/ Loop
  \/ \E fn \in Thresholds : KeyLevel(fn)
  \/ KeyBackspace(FALSE)

SpecDecode == Init /\ [][NextDecode]_vars

\* What the operator pushes where the filter stack is explored.
StackQueries == {<<"a">>, <<"b">>}

\* The filter stack: every command that changes it, over few lines.
NextStack ==
  \/ LinesRead < StackLines /\ TimedAppends
  \/ Loop
  \/ \E fn \in LevelFilters : KeyLevel(fn)
  \/ \E meta \in BOOLEAN : KeyBackspace(meta)
  \/ \E label \in {"Filter", "Expression"} : KeyPrompt(label)
  \/ \E query \in StackQueries : SubmitFilter(query)
  \/ \E query \in FilterExprs : SubmitExpression(query)
  \/ KeyEscape
  \/ KeyInclude("msg")
  \/ KeyExclude("level")

SpecStack == Init /\ [][NextStack]_vars

\* The process from its start: the engine's variables have their initial
\* values until the view is shown.
InitStart == Mount /\ \E n \in 1..MaxSpecs : boot = Booting(n)

\* Source resolution, then the view over the inputs, then the exit.
NextStart ==
  \/ \E n \in 0..MaxFound : \E k \in StreamsPer : Resolve(n, k)
  \/ ResolveThrows
  \/ \E c \in 1..MaxFound : \E k \in StreamsPer : Answer(c, k)
  \/ AskAbort
  \/ Mounted /\ TimedAppends
  \/ Mounted /\ Loop
  \/ Mounted /\ Cleanup
  \/ ProcessExit

SpecStart == InitStart /\ [][NextStart]_vars

\* Inputs whose lines carry times before 1970 and after 2286 next to one of
\* today.
KeyLines(idx) == IF idx = 0 THEN {LineBefore1, LineFar} ELSE {LineBefore2, LineA}

\* The sort keys of such lines, under ingestion, scanning and the sort command.
NextKeys ==
  \/ \E idx \in Sources : \E row \in KeyLines(idx) : AppendLine(idx, row)
  \/ Loop
  \/ KeySort

SpecKeys == Init /\ [][NextKeys]_vars

\* The movement keys under ingestion, scanning, a level filter and its
\* removal.
NextMove ==
  \/ TimedAppends
  \/ Loop
  \/ \E fn \in LevelFilters : KeyLevel(fn)
  \/ KeyBackspace(FALSE)
  \/ MoveKeys

SpecMove == Init /\ [][NextMove]_vars

\* What the operator searches for where the tail is explored.
TailQueries == {<<"b">>}

\* Every command that sets the cursor, over few lines: the movement keys,
\* the jumps, the selection jumps and the search, under ingestion, scanning
\* and a level filter.
NextTail ==
  \/ LinesRead < SelectLines /\ TimedAppends
  \/ Loop
  \/ \E fn \in LevelFilters : KeyLevel(fn)
  \/ KeySpace /\ Len(selected') <= MaxSelected
  \/ MoveKeys
  \/ KeyNextSelected
  \/ KeyPrevSelected
  \/ KeySearch
  \/ \E query \in TailQueries : SubmitSearch(query)
  \/ KeySearchNext
  \/ KeySearchPrev
  \/ KeyEscape

SpecTail == Init /\ [][NextTail]_vars

\* Inputs that deliver lines without a time after lines with one, input 0
\* with times that may go backwards.
InheritLines(idx) == IF idx = 0 THEN {LineA, LineD, LineC} ELSE {LineB, LineC}

\* Lines without a time under ingestion, scanning and a level filter.
NextInherit ==
  \/ \E idx \in Sources : \E row \in InheritLines(idx) : AppendLine(idx, row)
  \/ Loop
  \/ \E fn \in LevelFilters : KeyLevel(fn)

SpecInherit == Init /\ [][NextInherit]_vars

\* The selection jumps: toggles anywhere in the index, the cursor keys and
\* the jumps, under ingestion, scanning and a level filter.
NextJump ==
  \/ TimedAppends
  \/ Loop
  \/ \E fn \in LevelFilters : KeyLevel(fn)
  \/ KeySpace /\ Len(selected') <= MaxSelected
  \/ \E rel \in {-1, 1} : KeyMove(rel)
  \/ KeyFirst
  \/ KeyFollow
  \/ KeyNextSelected
  \/ KeyPrevSelected

SpecJump == Init /\ [][NextJump]_vars


\* ------------------------------------------------------------- properties
\* A record passes when every slot of the filter stack accepts it.
Passes(m) == \A i \in 1..Len(filters) : Test(filters[i], m) = "true"

\* The store indices 0 .. n-1 in increasing order.
Indices(n) == [i \in 1..n |-> i - 1]

PassesAt(i) == Passes(Msg(i))

\* Numeric a < b for decimal strings of naturals without leading zeros.
NumLess(a, b) == Len(a) < Len(b) \/ (Len(a) = Len(b) /\ StrLess(a, b))

\* C1: in append mode, once a scan pass is complete (scan = store length),
\* the matching index is exactly the list of the store indices whose records
\* pass every filter slot, in increasing store order.
C1_AppendIndexIsFilteredStore ==
  (~sort /\ scan = Length) => matching = SelectSeq(Indices(Length), PassesAt)

\* Scenario A: levels [30, 50, 20] under LEVEL>=INFO give [record0, record1].
C1_Witness ==
  /\ ~sort /\ scan = Length /\ Length = 3
  /\ <<Msg(0).level, Msg(1).level, Msg(2).level>> = <<InfoLevel, ErrorLevel, DebugLevel>>
  /\ filters = <<filterInfo>>
  /\ matching = <<0, 1>>

\* C2: in sorted mode the matching index is in non-decreasing `_sort` order in
\* every state (so at every published snapshot and after every completed
\* scan), and of two entries that carry time stamps the one with the smaller
\* time stamp comes first, whatever the order of arrival.
C2_SortedIndexIsOrdered ==
  sort =>
    /\ \A i \in 1..(Len(matching) - 1) :
         ~StrLess(Msg(matching[i + 1])._sort, Msg(matching[i])._sort)
    /\ \A i, j \in 1..Len(matching) :
         (/\ i < j
          /\ "time" \in DOMAIN Msg(matching[i])
          /\ "time" \in DOMAIN Msg(matching[j]))
         => ~NumLess(Msg(matching[j]).time, Msg(matching[i]).time)

\* Scenario B: T2 arrives from one input, then T1 from the other; the index
\* lists the T1 record first.
C2_Witness ==
  /\ sort /\ Length = 2 /\ scan = 2
  /\ "time" \in DOMAIN Msg(0) /\ Msg(0).time = T2
  /\ "time" \in DOMAIN Msg(1) /\ Msg(1).time = T1
  /\ Msg(0)._from /= Msg(1)._from
  /\ matching = <<1, 0>>

\* C3: a filter that faults on a record does not end the scan loop.
C3_FaultDoesNotEndLoop == loopPc /= "dead"

\* The loop has a continuation pending: the timer, a resolved promise, or the
\* scheduled setImmediate(resume).
LoopWillRun == loopPc \in {"pause", "woken"} \/ (loopPc = "parked" /\ immediate)

\* C4: absent cancellation, whenever records are left to scan the loop is
\* going to run again (no append is left without a wake-up).
C4_UnscannedRecordsGetScanned == (~aborted /\ scan < Length) => LoopWillRun

\* C4, apart from the loop a faulting filter has ended.
C4_NoLostWakeup == (~aborted /\ scan < Length /\ loopPc /= "dead") => LoopWillRun

\* C5: after cancellation the loop is not left parked with nothing left that
\* could resolve its promise (every input settled, no wake-up scheduled).
C5_CancelledLoopIsNotParked ==
  ~(aborted /\ loopPc = "parked" /\ ~immediate /\ settled)


IsPrefix(a, b) == Len(a) <= Len(b) /\ SubSeq(b, 1, Len(a)) = a

\* A command that changes what the index is computed from.
IndexCommand ==
  \/ \E fn \in LevelFilters : KeyLevel(fn)
  \/ \E meta \in BOOLEAN : KeyBackspace(meta)
  \/ \E query \in FilterQueries : SubmitFilter(query)
  \/ \E query \in FilterExprs : SubmitExpression(query)
  \/ KeySort
  \/ KeyClear

\* C6: a step that changes the filter stack, reorders or empties the store,
\* or is one of the filter, sort and clear commands, sets scan to 0 and
\* empties the matching index in that same step and wakes a parked loop; and
\* in every state each entry of the index is a scanned record that passes the
\* filters as they are now.
C6_MutationInvalidatesIndex ==
  /\ [][(filters' /= filters \/ ~IsPrefix(messages, messages') \/ IndexCommand)
          => /\ scan' = 0
             /\ matching' = <<>>
             /\ loopPc = "parked" => (loopPc' = "woken" \/ immediate')]_vars
  /\ [](\A i \in 1..Len(matching) : matching[i] < scan /\ PassesAt(matching[i]))

\* A filter was pushed over a fully scanned, non-empty index while the loop
\* was parked: the index is empty, the scan is at 0, the loop is woken.
C6_Witness ==
  /\ Len(filters) = 2 /\ Length = MaxLines
  /\ scan = 0 /\ matching = <<>> /\ loopPc = "woken"
  /\ pub.scan = Length

NonEmptyQueries == Queries \ {<<>>}
ForwardHits(q, pos) == After(pos, QueryPositions(q))
BackwardHits(q, pos) == Before(pos, QueryPositions(q))

\* C7 as stated: a search that finds nothing in its direction leaves the
\* cursor as it was.
C7_MissLeavesCursor ==
  [][\A q \in NonEmptyQueries :
       (\/ SubmitSearch(q) /\ ForwardHits(q, prompt.pos) = {}
        \/ KeySearchNext /\ search = {q} /\ ForwardHits(q, getPosition) = {}
        \/ KeySearchPrev /\ search = {q} /\ BackwardHits(q, getPosition) = {})
       => item' = item]_vars

\* C7 amended: a forward search that finds nothing after the position makes
\* the cursor follow the tail, a backward search that finds nothing before
\* the position binds the cursor to the first entry of the index (the tail if
\* the index is empty); a search with an empty or missing query leaves the
\* cursor as it was. Every search command leaves the engine as it is, so only
\* such steps are looked at.
C7_MissMovesCursor ==
  [][UNCHANGED engineVars =>
     /\ \A q \in NonEmptyQueries :
          /\ (SubmitSearch(q) /\ ForwardHits(q, prompt.pos) = {}) => item' = {}
          /\ (search = {q} /\ KeySearchNext /\ ForwardHits(q, getPosition) = {})
               => item' = {}
          /\ (search = {q} /\ KeySearchPrev /\ BackwardHits(q, getPosition) = {})
               => item' = MsgAt(Elem(0))
     /\ (search \in {{}, {<<>>}} /\ (KeySearchNext \/ KeySearchPrev)) => item' = item
     /\ SubmitSearch(<<>>) => item' = item]_vars

\* The query "b" was searched forward where no entry contains it: the cursor
\* follows the tail.
C7_Witness ==
  /\ search = {<<"b">>} /\ prompt = NoPrompt
  /\ Len(matching) >= 2
  /\ \A i \in 1..Length : ~Includes(Stringify(messages[i]), <<"b">>)
  /\ item = {}

\* C8: a search step binds the cursor to the nearest entry that contains the
\* query, after the current position for a forward search and before it for a
\* backward search, and the prompted search remembers its query.
C8_HitBindsNearest ==
  [][\A q \in NonEmptyQueries :
       /\ ((SubmitSearch(q) \/ (KeySearchNext /\ search = {q}))
             /\ ForwardHits(q, getPosition) /= {})
            => item' = {Msg(matching[Min(ForwardHits(q, getPosition)) + 1])}
       /\ (KeySearchPrev /\ search = {q} /\ BackwardHits(q, getPosition) /= {})
            => item' = {Msg(matching[Max(BackwardHits(q, getPosition)) + 1])}
       /\ SubmitSearch(q) => search' = {q}]_vars

\* C8 with the prompted search measured from the position the cursor had
\* when the prompt was opened.
C8_HitBindsNearestFromPromptPosition ==
  [][\A q \in NonEmptyQueries :
       /\ (SubmitSearch(q) /\ ForwardHits(q, prompt.pos) /= {})
            => item' = {Msg(matching[Min(ForwardHits(q, prompt.pos)) + 1])}
       /\ (KeySearchNext /\ search = {q} /\ ForwardHits(q, getPosition) /= {})
            => item' = {Msg(matching[Min(ForwardHits(q, getPosition)) + 1])}
       /\ (KeySearchPrev /\ search = {q} /\ BackwardHits(q, getPosition) /= {})
            => item' = {Msg(matching[Max(BackwardHits(q, getPosition)) + 1])}
       /\ SubmitSearch(q) => search' = {q}]_vars

\* C9: the cursor starts undefined and 'F' makes it undefined; while it is
\* undefined the position is the last index of the matching index, and a
\* scan step that adds entries moves the position to the new last index.
C9_TailFollowsLastMatch ==
  /\ item = {}
  /\ [](item = {} => getPosition = Len(matching) - 1)
  /\ [][/\ KeyFollow => item' = {}
        /\ (item = {} /\ item' = {} /\ Len(matching') > Len(matching))
             => (getPosition' = Len(matching') - 1 /\ getPosition' > getPosition)]_vars

\* The cursor follows the tail of an index of three scanned entries.
C9_Witness ==
  /\ item = {} /\ Len(matching) = 3 /\ scan = 3 /\ getPosition = 2

\* X follows store index x in the order of the index.
Follows(x, X) ==
  IF sort THEN StrLess(X._sort, Msg(x)._sort) ELSE x > IndexOf(messages, X)

InStore(X) == \E i \in 1..Length : messages[i] = X
InIndex(X) == \E i \in 1..Len(matching) : Msg(matching[i]) = X

\* C10: a cursor bound to a stored record X that is not in the matching
\* index resolves to the first entry that follows X (greater sort key in
\* sorted mode, greater store index in append mode), or to the last position
\* if no entry follows X.
C10_AbsentResolvesToNextEntry ==
  \A X \in item :
    (InStore(X) /\ ~InIndex(X)) =>
      LET F == {i \in 0..(Len(matching) - 1) : Follows(matching[i + 1], X)}
      IN getPosition = IF F = {} THEN Len(matching) - 1 ELSE Min(F)

\* X is filtered out and two entries follow it: the position is the first.
C10_Witness ==
  \E X \in item :
    /\ InStore(X) /\ ~InIndex(X)
    /\ Len(matching) = 2 /\ scan = Length
    /\ Follows(matching[1], X)
    /\ getPosition = 0

\* C11: whenever a scan pass is complete, a cursor bound to a record X that
\* is in the store and passes every filter of the stack resolves to the
\* position of X in the matching index, whatever filter pushes, pops and
\* level changes and rescans came before.
C11_BoundCursorResolvesToRecord ==
  \A X \in item :
    (InStore(X) /\ scan = Length /\ Passes(X)) =>
      /\ getPosition \in Positions
      /\ Msg(matching[getPosition + 1]) = X

\* After a filter was pushed and the rescan completed, the bound record sits
\* at a position of the index that is not its place in the store.
C11_Witness ==
  \E X \in item :
    /\ InStore(X) /\ Passes(X) /\ scan = Length
    /\ Len(filters) = 2 /\ Length = MaxLines
    /\ getPosition /= IndexOf(messages, X)
    /\ Msg(matching[getPosition + 1]) = X

\* A step of the sort command; what the command leaves alone is tested
\* before the sorted store is computed.
SortStep == UNCHANGED <<filters, srcLine, pub, item>> /\ KeySort

\* The records the selection denotes (undefined for an index off the store).
SelectedRecords == {MsgAt(selected[i]) : i \in 1..Len(selected)}

\* C12: every step that changes the selection list is the toggle, or the
\* sort command re-indexing the same records at the same length; so no scan
\* tick, no rescan and no filter mutation (level replacement, pop, clear-all,
\* push) changes it.
C12_SelectionOnlyToggled ==
  [][selected' /= selected =>
       \/ KeySpace
       \/ /\ SortStep
          /\ Len(selected') = Len(selected)
          /\ SelectedRecords' = SelectedRecords]_vars

\* Two records are selected while a pushed filter hides one of them.
C12_Witness ==
  /\ Len(selected) = 2 /\ Len(filters) = 2
  /\ scan = Length /\ Length = SelectLines
  /\ \A i \in 1..2 : MsgAt(selected[i]) /= {}
  /\ \E i \in 1..2 : \A X \in MsgAt(selected[i]) : ~InIndex(X)

\* C13 as stated: every step other than the clear leaves each record at the
\* place it has in the store.
C13_StoreNeverReordered ==
  [][messages' = <<>> \/ IsPrefix(messages, messages')]_vars

\* The store is in non-decreasing order of `_sort` under localeCompare.
StoreSorted ==
  \A i, j \in 1..Length : i < j => ~LocaleLess(messages[j]._sort, messages[i]._sort)

StoreSet == {messages[i] : i \in 1..Length}

\* C13 amended: a step that moves a record inside the store is the clear,
\* which empties it, or the sort command, which puts the same records in
\* `_sort` order; every other step leaves each record at its place (an append
\* adds at the end).
C13_StoreReorderedOnlyBySort ==
  [][\/ IsPrefix(messages, messages')
     \/ KeyClear /\ messages' = <<>>
     \/ /\ SortStep
        /\ Length' = Length /\ StoreSet' = StoreSet
        /\ StoreSorted']_vars

\* Line 2 of input 0 stands before line 1 of input 0: the store was sorted.
C13_Witness ==
  /\ Length >= 2
  /\ Msg(0)._from = 0 /\ Msg(0)._line = 2
  /\ Msg(1)._from = 0 /\ Msg(1)._line = 1
  /\ scan = Length

\* C14 as stated: after the sort command the engine is in sorted mode.
C14_SortCommandSetsSortedMode == [][SortStep => sort']_vars

\* C14 amended: the sort command leaves the mode as it was chosen at
\* startup, puts the store in `_sort` order once and restarts the scan; in
\* append mode a completed scan lists the index in store order, so the index
\* is in `_sort` order for the records sorted by the command and in arrival
\* order for the records that came after it.
C14_SortCommandSortsStoreOnce ==
  [][/\ SortStep => /\ sort' = sort
                   /\ StoreSorted'
                   /\ scan' = 0 /\ matching' = <<>>
     /\ (~sort' /\ scan' = Length') =>
          \A i \in 1..(Len(matching') - 1) : matching'[i] < matching'[i + 1]]_vars

\* In append mode the store was sorted (line 2 of input 0 before its line 1),
\* then a record with a smaller key arrived: the completed index lists it
\* last.
C14_Witness ==
  /\ ~sort /\ Length = 3 /\ scan = 3
  /\ Msg(0)._from = 0 /\ Msg(0)._line = 2
  /\ Msg(1)._from = 0 /\ Msg(1)._line = 1
  /\ StrLess(Msg(2)._sort, Msg(1)._sort)
  /\ matching = <<0, 1, 2>>

\* C15: after the clear the selection holds no store index.
C15_ClearEmptiesSelection ==
  [][KeyClear => \A i \in 1..Len(selected') : selected'[i] = {}]_vars

\* C16: the cursor is never bound to a record that is not in the store (the
\* clear unbinds it from the records it removes).
C16_CursorBoundToStoredRecord == \A X \in item : InStore(X)

\* The store indices of the set S in increasing order of `_sort`.
BySortKey(S) ==
  [k \in 1..Cardinality(S) |->
     CHOOSE x \in S :
       Cardinality({y \in S : StrLess(Msg(y)._sort, Msg(x)._sort)}) = k - 1]

\* The index a completed scan yields, as a function of the store, the filter
\* stack and the mode alone.
FullIndex ==
  IF sort THEN BySortKey({i \in 0..(Length - 1) : PassesAt(i)})
  ELSE SelectSeq(Indices(Length), PassesAt)

\* C17: a push adds one filter on top of the stack and a pop removes the top
\* one, so a push followed by a pop leaves the stack as it was; and the index
\* of a completed scan is determined by the store, the stack and the mode,
\* so with the store unchanged it is the index there was before the push.
C17_PushPopRestoresIndex ==
  /\ [][/\ Len(filters') > Len(filters)
            => filters' = Append(filters, filters'[Len(filters')])
        /\ (Len(filters) > 1 /\ KeyBackspace(FALSE))
            => Append(filters', filters[Len(filters)]) = filters]_vars
  /\ [](scan = Length => matching = FullIndex)

\* The top filter was popped off a stack over a completed index: the stack is
\* down to a level filter in slot 0 and the rescan is about to run.
C17_Witness ==
  /\ filters = <<filterInfo>> /\ Length = MaxLines
  /\ scan = 0 /\ matching = <<>> /\ loopPc = "woken"
  /\ pub.scan = Length

\* C18: whenever a pass is complete, however the ticks cut it and whatever
\* appends and rescans came before, one more pass from scratch over the store
\* as it is, with the stack and the mode as they are, yields the index there
\* is, in the same order.
C18_ScanIsIdempotent ==
  scan = Length =>
    ScanRun(0, <<>>, Length) = [scan |-> Length, matching |-> matching, threw |-> FALSE]

\* A pass has completed and was published in sorted mode over a full store,
\* with an index that is not in store order.
C18_Witness ==
  /\ sort /\ Length = MaxLines /\ scan = Length /\ pub.scan = Length
  /\ Len(matching) >= 2
  /\ \E i \in 1..(Len(matching) - 1) : matching[i] > matching[i + 1]

\* Input idx takes a step of its failure: its catch callback, or the
\* statements that follow it.
FailureStep(idx) == SourceFail(idx) \/ (srcError[idx] = "caught" /\ SourceEnd(idx))

\* C19: a step of the failure of one input leaves the other inputs, the store
\* and the abort signal as they are and does not end the scan loop; and
\* while the run is not cancelled, an input that is still open can append its
\* next line and can reach its own completion, whatever became of the others.
C19_FailureLeavesSiblings ==
  /\ [][\A idx \in Sources :
          FailureStep(idx) =>
            /\ aborted' = aborted
            /\ messages' = messages
            /\ \A t \in Sources \ {idx} :
                 /\ srcEnded'[t] = srcEnded[t]
                 /\ srcError'[t] = srcError[t]
                 /\ srcLine'[t] = srcLine[t]
            /\ loopPc' \in {loopPc, "woken"}]_vars
  /\ [](\A t \in Sources :
          (~aborted /\ ~srcEnded[t]) =>
            /\ ENABLED SourceEnd(t)
            /\ LinesRead < MaxLines =>
                 \A row \in TimedLines(t) : ENABLED AppendLine(t, row))

\* Input 0 failed before it delivered a line; input 1 delivered its lines and
\* ended normally, and the loop has scanned them.
C19_Witness ==
  /\ ~aborted /\ settled
  /\ srcError[0] = "failed" /\ srcLine[0] = 0
  /\ srcError[1] = "none" /\ srcEnded[1] /\ srcLine[1] >= 2
  /\ scan = Length /\ Length = srcLine[1]

\* C20: the status a failed input's error set is replaced only after a
\* published snapshot has shown it.
C20_ErrorStatusIsPublished ==
  [][(status = ErrMessage /\ status' /= status) => pub.status = ErrMessage]_vars

\* The store positions that hold line `line` of input idx.
RecordsOf(idx, line) ==
  {i \in 1..Length : messages[i]._from = idx /\ messages[i]._line = line}

\* A line that is no JSON object.
Undecodable(row) == ~row.valid

\* C21: every line read has exactly one record in the store, and the record
\* of a line that is no JSON object carries the line as its msg and level 100.
C21_EveryLineOneRecord ==
  /\ [](/\ Length = LinesRead
        /\ \A idx \in Sources : \A line \in 1..srcLine[idx] :
             Cardinality(RecordsOf(idx, line)) = 1)
  /\ [][\A idx \in Sources :
         srcLine'[idx] /= srcLine[idx] =>
           \A row \in DecodeLines(idx) :
             (AppendLine(idx, row) /\ Undecodable(row)) =>
               /\ messages'[Len(messages')].msg = row.text
               /\ messages'[Len(messages')].level = InvalidLevel]_vars

\* An empty line, a cut-off object and plain text were read, in this order,
\* and each has its fallback record.
C21_Witness ==
  /\ Length = 3
  /\ <<Msg(0).msg, Msg(1).msg, Msg(2).msg>> = <<LineEmpty.text, LineBroken.text, LineText.text>>
  /\ \A i \in 0..2 : Msg(i).level = InvalidLevel

\* The store indices the index lists.
Listed == {matching[i] : i \in 1..Len(matching)}

\* The store indices of the records of lines that were no JSON object.
Fallbacks ==
  {i \in 0..(Length - 1) :
     \E row \in {LineEmpty, LineText, LineBroken} : Msg(i).msg = row.text}

\* C22 as stated: after a completed scan under a level threshold the index
\* lists no record of an undecodable line, and with no level filter it lists
\* every one of them.
C22_ThresholdExcludesUndecodable ==
  (scan = Length /\ Len(filters) = 1) =>
    IF filters[1] \in Thresholds THEN Listed \cap Fallbacks = {}
    ELSE Fallbacks \subseteq Listed

\* C22 amended: level 100 is at or above every threshold, so after a
\* completed scan the index lists every record of an undecodable line under
\* each of the thresholds as well as with no level filter.
C22_ThresholdKeepsUndecodable ==
  (scan = Length /\ Len(filters) = 1) => Fallbacks \subseteq Listed

\* Under LEVEL>=FATAL the index lists the fallback records and leaves out
\* the INFO record read before them.
C22_Witness ==
  /\ filters = <<filterFatal>> /\ scan = Length /\ Length = 3
  /\ Msg(0).level = InfoLevel
  /\ Fallbacks = {1, 2} /\ Listed = {1, 2}

\* The pushed filters, slots 1 and up.
Pushed(fs) == SubSeq(fs, 2, Len(fs))

\* C23: a level key replaces slot 0 and nothing else of the stack, and
\* restarts the scan over an empty index.
C23_LevelKeyReplacesSlotZero ==
  [][\A fn \in LevelFilters :
       KeyLevel(fn) =>
         /\ filters'[1] = fn
         /\ Pushed(filters') = Pushed(filters)
         /\ scan' = 0 /\ matching' = <<>>]_vars

\* Slot 0 is LEVEL>=INFO under two different pushed filters, and the scan
\* of a store that had been scanned has been restarted.
C23_Witness ==
  /\ Len(filters) = 3 /\ filters[1] = filterInfo /\ filters[2] /= filters[3]
  /\ scan = 0 /\ matching = <<>> /\ Length > 0 /\ pub.scan = Length

\* C24: a pop removes the filter pushed last and nothing else, a clear
\* removes every pushed filter, and no step removes or replaces a pushed
\* filter in any other way.
C24_OnlyTopIsRemoved ==
  [][filters' /= filters =>
       /\ (Len(filters) > 1 /\ KeyBackspace(FALSE))
            => filters' = SubSeq(filters, 1, Len(filters) - 1)
       /\ KeyBackspace(TRUE) => Pushed(filters') = <<>>
       /\ \/ Pushed(filters') = Pushed(filters)
          \/ \E fn \in {filters'[Len(filters')]} : Pushed(filters') = Append(Pushed(filters), fn)
          \/ filters' = SubSeq(filters, 1, Len(filters) - 1)
          \/ filters' = <<filterNull>>]_vars

\* One of two different pushed filters is left above LEVEL>=INFO, the scan
\* restarted.
C24_Witness ==
  /\ Len(filters) = 2 /\ filters[1] = filterInfo /\ prompt = NoPrompt
  /\ scan = 0 /\ matching = <<>> /\ Length > 0 /\ pub.scan = Length

\* The record the index lists at place i.
Entry(i) == Msg(matching[i])

\* The pairs of places of the index that list a later line of an input
\* before an earlier line of the same input.
Inversions ==
  {p \in (1..Len(matching)) \X (1..Len(matching)) :
     /\ p[1] < p[2]
     /\ Entry(p[1])._from = Entry(p[2])._from
     /\ Entry(p[1])._line > Entry(p[2])._line}

\* For every input, the store holds its lines in the order they were read.
ArrivalOrder ==
  \A a, b \in 1..Length :
    (a < b /\ messages[a]._from = messages[b]._from) => messages[a]._line < messages[b]._line

\* C25 as stated: the index never lists a later line of an input before an
\* earlier line of the same input.
C25_LineOrderInIndex == Inversions = {}

\* C25 amended: the index lists a later line of an input before an earlier
\* line of it only where the later line's sort key orders first; in append
\* mode over a store in arrival order it never does.
C25_LaterLineFirstOnlyByKey ==
  /\ \A p \in Inversions :
       /\ StrLess(Entry(p[1])._sort, Entry(p[2])._sort)
       /\ LocaleLess(Entry(p[1])._sort, Entry(p[2])._sort)
  /\ (~sort /\ ArrivalOrder) => Inversions = {}

\* Sorted mode: input 0 delivered a line and then one with an earlier time;
\* the index lists the second before the first, the store keeps them as read.
C25_Witness ==
  /\ sort /\ scan = Length /\ ArrivalOrder
  /\ Len(matching) = 2 /\ Inversions = {<<1, 2>>}
  /\ Entry(1)._from = 0

\* The positions of the index whose entry is in the selection.
InSelection == {i \in Positions : \E k \in 1..Len(selected) : selected[k] = {matching[i + 1]}}
SelectedAfter == {i \in InSelection : i > getPosition}
SelectedBefore == {i \in InSelection : i < getPosition}

\* C26: where the index has a selected entry after the position, 'm' binds
\* the cursor to the first of them; where it has one before the position,
\* 'M' binds the cursor to the last of them.
C26_JumpBindsNearestSelected ==
  [][UNCHANGED <<engineVars, selected>> =>
       /\ (SelectedAfter /= {} /\ KeyNextSelected)
            => item' = {Entry(Min(SelectedAfter) + 1)}
       /\ (SelectedBefore /= {} /\ KeyPrevSelected)
            => item' = {Entry(Max(SelectedBefore) + 1)}]_vars

\* The cursor is bound to the middle entry of three, the entry after it is
\* selected and the first one is too.
C26_Witness ==
  /\ Len(matching) = 3 /\ scan = Length
  /\ item = {Entry(2)}
  /\ InSelection = {0, 2}

\* C27: a navigation command given over an empty index leaves in the
\* selection only indices of stored records, and leaves the cursor following
\* the tail or bound to a stored record.
C27_EmptyIndexNavigationIsSafe ==
  [][(matching = <<>> /\ UNCHANGED engineVars) =>
       /\ \A k \in 1..Len(selected') : MsgAt(selected'[k]) /= {}
       /\ \A X \in item' : \E i \in 1..Length : messages[i] = X]_vars

\* C29: the scan position is never below 0 and never beyond the store.
C29_ScanWithinStore == 0 <= scan /\ scan <= Length

\* Every line was read, a slice that ended inside the store was published,
\* and the store has been cleared during the pause that followed it.
C29_Witness ==
  /\ messages = <<>> /\ scan = 0 /\ LinesRead = MaxLines
  /\ loopPc = "pause" /\ pub.scan > 0 /\ pub.scan < MaxLines

\* C30: a step that lowers the scan position is no append and no step of
\* the loop, and it restarts the scan at 0 over an empty index.
C30_ScanPositionOnlyRestarts ==
  [][scan' < scan =>
       /\ scan' = 0 /\ matching' = <<>>
       /\ ~(LoopAfterPause \/ LoopWoken \/ ImmediateFire)
       /\ \A idx \in Sources : srcLine'[idx] = srcLine[idx]]_vars

\* A pass in progress: part of the store is scanned, more has been appended.
C30_Witness ==
  /\ scan > 0 /\ scan < Length /\ Length = MaxLines
  /\ pub.scan = scan /\ Len(matching) > 0

\* C28: a specification that resolves to no source, and an aborted choice,
\* end the process with status 1; status 1 is set only while the sources
\* are resolved, with the engine and the view untouched, and nothing runs
\* after the exit.
C28_StartupFailureExits ==
  /\ [][/\ (boot.pc = "resolve" /\ \E k \in StreamsPer : Resolve(0, k)) => boot'.code = {1}
        /\ AskAbort => boot'.code = {1}
        /\ boot'.code /= boot.code =>
             /\ boot'.pc = "exit"
             /\ boot'.code = {1} <=> boot.pc \in {"resolve", "ask"}
        /\ boot.pc /= "exit"]_vars
  /\ [](boot.code = {1} => (Mount /\ boot.pc = "exit"))

\* The first specification gave its streams, the second resolved to nothing.
C28_Witness ==
  boot.pc = "exit" /\ boot.code = {1} /\ boot.left = 1 /\ boot.inputs > 0

\* The continuations of loop() that are pending: its timer or its resolved
\* promise, the resolver held in `resume`, the scheduled setImmediate(resume).
Pending ==
  {c \in {"run", "resolver", "immediate"} :
     \/ c = "run" /\ loopPc \in {"pause", "woken"}
     \/ c = "resolver" /\ resume
     \/ c = "immediate" /\ immediate}

NoDuplicates(arr) == \A i, j \in 1..Len(arr) : arr[i] = arr[j] => i = j

\* C31: loop() has at most one continuation pending, and a resolver only
\* while it is parked; a rescan given while the loop is in its pause does not
\* run the loop (it stays in the pause, nothing is scheduled); the index
\* holds no entry twice and none at or beyond the scan position, and when a
\* pass is complete it is the index of a fresh scan.
C31_OneLoopNoOverlap ==
  /\ [](/\ Cardinality(Pending) <= 1
        /\ (resume \/ immediate) => loopPc = "parked"
        /\ NoDuplicates(matching)
        /\ \A i \in 1..Len(matching) : matching[i] < scan
        /\ scan = Length => matching = FullIndex)
  /\ [][(loopPc = "pause" /\ IndexCommand)
          => /\ loopPc' = "pause"
             /\ ~resume' /\ ~immediate'
             /\ scan' = 0 /\ matching' = <<>>]_vars

\* A filter was pushed during the pause that followed a slice which had
\* ended inside the store, and the pass that restarted is complete.
C31_Witness ==
  /\ Len(filters) = 2 /\ Length = MaxLines
  /\ loopPc = "pause" /\ scan = Length /\ pub.scan = Length
  /\ Len(matching) < Length /\ Len(matching) > 0

\* C32: while the loop is parked, the snapshot last published shows the scan
\* position and the status the engine has.
C32_ParkedSnapshotIsCurrent ==
  loopPc = "parked" => (pub.scan = scan /\ pub.status = status)

Negative(a) == a /= <<>> /\ Head(a) = "-"

\* Numeric a < b for the decimal strings of two integers.
TimeLess(a, b) ==
  IF Negative(a) THEN (IF Negative(b) THEN NumLess(Tail(b), Tail(a)) ELSE TRUE)
  ELSE IF Negative(b) THEN FALSE
  ELSE NumLess(a, b)

\* (time, input, line) of x before that of y, for records that carry a time.
TupleLess(x, y) ==
  \/ TimeLess(GetTime(x.time), GetTime(y.time))
  \/ /\ GetTime(x.time) = GetTime(y.time)
     /\ (x._from < y._from \/ (x._from = y._from /\ x._line < y._line))

\* C33: two distinct records of the store never share a sort key, and their
\* keys compare as their (time, input, line) do, whatever the times are.
C33_SortKeyOrderIsTupleOrder ==
  \A i, j \in 1..Length :
    i /= j =>
      /\ messages[i]._sort /= messages[j]._sort
      /\ StrLess(messages[i]._sort, messages[j]._sort)
           <=> TupleLess(messages[i], messages[j])

\* The store indices from a up to, not including, b whose records pass.
PassingIn(a, b) == {i \in a..(b - 1) : PassesAt(i)}

\* C34: in every state the index lists exactly the store indices below the
\* scan position whose records pass every filter, each once; and a step
\* that moves the scan position forward adds exactly the passing ones among
\* the records it moves over.
C34_IndexIsScannedPrefix ==
  /\ [](Listed = PassingIn(0, scan) /\ Len(matching) = Cardinality(Listed))
  /\ [][scan' > scan =>
          /\ UNCHANGED <<messages, filters>>
          /\ Listed' = Listed \cup PassingIn(scan, scan')
          /\ Len(matching') = Len(matching) + Cardinality(PassingIn(scan, scan'))]_vars

\* The middle of a pass under LEVEL>=FATAL: of two records scanned one is
\* listed, a third is left to the next slice.
C34_Witness ==
  /\ filters = <<filterFatal>> /\ Length = MaxLines /\ loopPc = "pause"
  /\ scan = 2 /\ pub.scan = 2 /\ Len(matching) = 1

\* The deltas of the movement keys.
Deltas == {-1, 1, -NumLines, NumLines}

\* The position delta away from the cursor, kept within the index.
Clamped(delta) ==
  LET to == getPosition + delta
  IN IF to < 0 THEN 0 ELSE IF to > Len(matching) - 1 THEN Len(matching) - 1 ELSE to

\* C35: while the index is not empty the position of the cursor is one of
\* its positions, and a relative move binds the cursor to the record at the
\* position delta away, clamped to the index.
C35_PositionWithinIndex ==
  /\ [](matching /= <<>> => getPosition \in Positions)
  /\ [][(UNCHANGED <<engineVars, selected, search, prompt>> /\ matching /= <<>>) =>
          \A delta \in Deltas :
            KeyMove(delta) => item' = {Entry(Clamped(delta) + 1)}]_vars

\* The cursor is bound to the middle entry of a complete index of three.
C35_Witness ==
  /\ Len(matching) = 3 /\ scan = Length /\ Len(filters) = 1
  /\ item = {Entry(2)} /\ getPosition = 1

\* A forward search for a query that no entry after the position contains.
ForwardMiss ==
  \E q \in TailQueries :
    \/ SubmitSearch(q) /\ ForwardHits(q, prompt.pos) = {}
    \/ search = {q} /\ KeySearchNext /\ ForwardHits(q, getPosition) = {}

\* A backward search for a query that no entry before the position contains.
BackwardMiss ==
  \E q \in TailQueries : search = {q} /\ KeySearchPrev /\ BackwardHits(q, getPosition) = {}

\* A relative move from a position from which delta leads to the last entry
\* or beyond it.
MoveToLast == \E delta \in Deltas : getPosition + delta >= Len(matching) - 1 /\ KeyMove(delta)

\* The commands that unbind the cursor: 'F', and 'm' and a forward search
\* that find nothing after the position.
Unbinds ==
  \/ KeyFollow
  \/ SelectedAfter = {} /\ KeyNextSelected
  \/ ForwardMiss

\* C36 as stated: 'G' and a relative move that ends on the last position
\* bind the cursor to a record, and a bound cursor is unbound only by 'F',
\* by 'm' and by a forward search that find nothing ahead.
C36_OnlyTailUnbinds ==
  [][UNCHANGED engineVars =>
       /\ (KeyLast \/ MoveToLast) => (item' /= {} /\ item' = MsgAt(At(matching, -1)))
       /\ (item /= {} /\ item' = {}) => Unbinds]_vars

\* C36 amended: over a non-empty index 'G' and a relative move that ends on
\* the last position bind the cursor to the record that is last then, and a
\* bound cursor is unbound only by 'F', by 'm' and by a forward search that
\* find nothing ahead; over an empty index the moves, 'g', 'G', and 'M' and a
\* backward search that find nothing leave the cursor unbound as well. No
\* step of the engine changes the cursor, and a bound cursor whose record is
\* listed resolves to that record's entry.
C36_TailOnlyByFollowOrMiss ==
  /\ [][IF UNCHANGED engineVars
          THEN IF matching /= <<>>
                 THEN /\ (KeyLast \/ MoveToLast) => item' = {Entry(Len(matching))}
                      /\ (item /= {} /\ item' = {}) => Unbinds
                 ELSE (\/ KeyLast \/ KeyFirst \/ \E delta \in Deltas : KeyMove(delta)
                       \/ KeyPrevSelected \/ BackwardMiss) => item' = {}
          ELSE item' = item]_vars
  /\ [](\A X \in item : InIndex(X) => Entry(getPosition + 1) = X)

\* Append mode: the cursor is bound to the first of two entries, the second
\* of which has been scanned since, and the position is the first.
C36_Witness ==
  /\ ~sort /\ Len(matching) = 2 /\ scan = Length /\ pub.scan = Length
  /\ item = {Entry(1)} /\ getPosition = 0
  /\ search = {} /\ selected = <<>>

\* C37: the filter stack never has fewer entries than slot 0; a pop given
\* with nothing pushed leaves one entry and makes it the pass-all filter,
\* and so does a clear, whatever was pushed.
C37_SlotZeroAlwaysThere ==
  /\ [](Len(filters) >= 1)
  /\ [][UNCHANGED <<engineRest, navVars>> =>
          /\ (Len(filters) = 1 /\ KeyBackspace(FALSE)) => filters' = <<filterNull>>
          /\ KeyBackspace(TRUE) => filters' = <<filterNull>>]_vars

\* The stack is down to the pass-all filter and the scan of a store that
\* LEVEL>=INFO had emptied the index of has been restarted.
C37_Witness ==
  /\ filters = <<filterNull>> /\ Length = 1 /\ Msg(0).level < InfoLevel
  /\ scan = 0 /\ matching = <<>> /\ loopPc = "woken" /\ pub.scan = Length

\* The time part of a record's sort key.
TimePart(m) == SubSeq(m._sort, 1, Len(m._sort) - (IdxPad + LinePad + 2))

\* The store positions of the records without a time.
Untimed == {i \in 1..Length : "time" \notin DOMAIN messages[i]}

\* The store positions of the lines input `idx` delivered before line `line`.
Preceding(idx, line) ==
  {i \in 1..Length : messages[i]._from = idx /\ messages[i]._line < line}

\* Of those, the ones that carry a time.
TimedPreceding(idx, line) == {i \in Preceding(idx, line) : "time" \in DOMAIN messages[i]}

\* The time a line without one is keyed with: that of the latest line of its
\* input before it that carries one, 0 if there is none.
InheritedTime(x) ==
  LET P == TimedPreceding(messages[x]._from, messages[x]._line)
  IN IF P = {} THEN <<"0">>
     ELSE GetTime(messages[CHOOSE i \in P : \A j \in P : messages[j]._line <= messages[i]._line].time)

\* The place of store position x in the index, 0 if it is not listed.
Place(x) == IF \E k \in 1..Len(matching) : matching[k] = x - 1
              THEN CHOOSE k \in 1..Len(matching) : matching[k] = x - 1
            ELSE 0

\* The record without a time is keyed with the inherited time.
KeyedWithInheritedTime ==
  \A x \in Untimed : TimePart(messages[x]) = PadStart(InheritedTime(x), TimePad)

\* C38 as stated: a record without a time is keyed with the inherited time,
\* and in sorted mode the index lists it after every record of the lines its
\* own input delivered before it.
C38_UntimedAfterOwnSource ==
  /\ KeyedWithInheritedTime
  /\ sort =>
       \A x \in Untimed : \A q \in Preceding(messages[x]._from, messages[x]._line) :
         (Place(x) /= 0 /\ Place(q) /= 0) => Place(q) < Place(x)

\* C38 amended: a record without a time is keyed with the inherited time;
\* its key follows the key of the line its input delivered just before it
\* with no key of the store between them, so in sorted mode the index lists
\* it directly after that line, after the earlier lines of its input that
\* are listed before that line, and before those that are listed after it.
C38_UntimedFollowsPreviousLine ==
  /\ KeyedWithInheritedTime
  /\ \A x \in Untimed : \A p \in Preceding(messages[x]._from, messages[x]._line) :
       messages[p]._line + 1 = messages[x]._line =>
         /\ StrLess(messages[p]._sort, messages[x]._sort)
         /\ \A q \in (1..Length) \ {x, p} :
              StrLess(messages[q]._sort, messages[x]._sort)
                <=> StrLess(messages[q]._sort, messages[p]._sort)
         /\ (sort /\ Place(x) /= 0 /\ Place(p) /= 0) =>
              /\ Place(x) = Place(p) + 1
              /\ \A q \in Preceding(messages[x]._from, messages[x]._line) \ {p} :
                   Place(q) /= 0 => (Place(q) < Place(x) <=> Place(q) < Place(p))

\* Sorted mode: input 0 delivered a line, one with an earlier time and one
\* without a time; the index lists the third directly after the second and
\* both before the first.
C38_Witness ==
  /\ sort /\ scan = Length /\ Length = 3
  /\ \A i \in 1..3 : messages[i]._from = 0
  /\ Untimed = {3}
  /\ matching = <<1, 2, 0>>

\* C39: the sort command leaves the selection with as many entries as it
\* had, each of which refers to the record it referred to before (to none
\* if it referred to none), at the place the sorted store has it.
C39_SortKeepsSelectedRecords ==
  [][SortStep =>
       /\ Len(selected') = Len(selected)
       /\ \A k \in 1..Len(selected) :
            /\ MsgAt(selected[k])' = MsgAt(selected[k])
            /\ \A X \in MsgAt(selected[k]) : selected'[k] = {IndexOf(messages', X)}]_vars

\* The record read first was selected at store index 0; the sort has moved
\* it behind a record with an earlier time and the selection refers to it
\* at store index 1, the scan restarted.
C39_Witness ==
  /\ Length = 2 /\ Msg(1)._from = 0 /\ Msg(1)._line = 1 /\ Msg(0)._from = 1
  /\ StrLess(Msg(0)._sort, Msg(1)._sort)
  /\ selected = <<{1}>>
  /\ scan = 0 /\ matching = <<>> /\ pub.scan = Length /\ filters = <<filterNull>>

\* What a selection holds, as a set.
Members(sel) == {sel[k] : k \in 1..Len(sel)}

\* What a toggle can be given: an entry of the index, or undefined.
Toggleable == {Elem(p) : p \in -1..(Len(matching) - 1)}

\* C40: toggling an entry twice in a row gives a selection that holds what
\* it held before; and a toggle changes whether the selection holds the
\* entry at the position, and leaves every other member a member and adds
\* no other.
C40_ToggleIsInvolution ==
  /\ [](\A x \in Toggleable :
          Members(Toggled(Toggled(selected, x), x)) = Members(selected))
  /\ [][(UNCHANGED <<engineVars, item, search, prompt>> /\ KeySpace) =>
          LET x == Elem(getPosition)
          IN /\ x \in Members(selected') <=> x \notin Members(selected)
             /\ Members(selected') \ {x} = Members(selected) \ {x}]_vars

\* The cursor is bound to the middle entry of three; the selection holds
\* the first entry and, toggled after it, the entry at the cursor.
C40_Witness ==
  /\ Len(matching) = 3 /\ scan = Length
  /\ item = {Entry(2)}
  /\ selected = <<{matching[1]}, {matching[2]}>>

====
